---- MODULE Spec2Model ----
\* Model of greenmask's integer transformer (transformers_new/integer.go) and of
\* the HashReducer generator decorator (generators/hash_reducer.go).
EXTENDS Integers, Sequences, FiniteSets, TLC

VARIABLES
    call,      \* last call of one of the limit helpers of integer.go, with its result
    hr,        \* the HashReducer object (Nil before NewHashReducer)
    out,       \* last call on the HashReducer, with its result
    rit,       \* the IntegerTransformer object (Nil before / without construction)
    newOut,    \* arguments and results of NewIntegerTransformer
    rec,       \* the record handed to the current Transform call, as the call left it
    written,   \* the record of the previous Transform call, as it stands now
    last,      \* what the last Transform call did and returned
    rows       \* number of records handed to Transform so far

vars == <<call, hr, out, rit, newOut, rec, written, last, rows>>

\* A nil error is the string Nil.  A pointer is a sequence: <<>> is the nil
\* pointer and <<x>> points to x.
Nil == "nil"
NilPtr == <<>>
Ptr(x) == <<x>>

----------------------------------------------------------------------------
\* int64 values.  A Go int64 is kept as its four 16-bit words, most
\* significant first; the top word is signed, the others are 0..65535.
\* Only order and equality of int64 values are used by the code modelled.

Word == 2^16

I64(n) ==
    <<IF n < 0 THEN -1 ELSE 0,
      IF n < 0 THEN Word - 1 ELSE 0,
      (n \div Word) % Word,
      n % Word>>

Lt(a, b) ==
    \/ a[1] < b[1]
    \/ a[1] = b[1] /\ a[2] < b[2]
    \/ a[1] = b[1] /\ a[2] = b[2] /\ a[3] < b[3]
    \/ a[1] = b[1] /\ a[2] = b[2] /\ a[3] = b[3] /\ a[4] < b[4]

Leq(a, b) == a = b \/ Lt(a, b)

Geq(a, b) == Leq(b, a)

MinInt16 == I64(-32768)
MaxInt16 == I64(32767)
MinInt32 == I64(-2147483647 - 1)
MaxInt32 == I64(2147483647)
MinInt64 == <<-(2^15), 0, 0, 0>>
MaxInt64 == <<2^15 - 1, Word - 1, Word - 1, Word - 1>>

Zero == I64(0)

----------------------------------------------------------------------------
\* Limits (integer.go)

Int2Length == 2
Int4Length == 4
Int8Length == 8

\* transformers.NewInt64Limiter: a limiter holds an inclusive range min <= max.
NewInt64Limiter(minValue, maxValue) ==
    IF Lt(maxValue, minValue)
    THEN [limiter |-> NilPtr, err |-> "wrong limits"]
    ELSE [limiter |-> Ptr([MinValue |-> minValue, MaxValue |-> maxValue]), err |-> Nil]

\* toolkit.ValidationWarnings.IsFatal: some entry has error severity.
IsFatal(warns) == \E i \in 1..Len(warns) : warns[i].Severity = "error"

getIntThresholds(size) ==
    CASE size = Int2Length -> [min |-> MinInt16, max |-> MaxInt16, err |-> Nil]
      [] size = Int4Length -> [min |-> MinInt32, max |-> MaxInt32, err |-> Nil]
      [] size = Int8Length -> [min |-> MinInt16, max |-> MaxInt16, err |-> Nil]
      [] OTHER -> [min |-> Zero, max |-> Zero, err |-> "unsupported int size"]

limitIsValid(requestedThreshold, minValue, maxValue) ==
    Geq(requestedThreshold, minValue) \/ Leq(requestedThreshold, maxValue)

getLimiterForDynamicParameter(size, requestedMinValue, requestedMaxValue) ==
    LET th == getIntThresholds(size)
        full == NewInt64Limiter(MinInt64, MaxInt64)
        req == NewInt64Limiter(requestedMinValue, requestedMaxValue)
    IN  IF th.err # Nil THEN [limiter |-> NilPtr, err |-> th.err]
        ELSE IF ~limitIsValid(requestedMinValue, th.min, th.max)
        THEN [limiter |-> NilPtr, err |-> "min out of range"]
        ELSE IF ~limitIsValid(requestedMaxValue, th.min, th.max)
        THEN [limiter |-> NilPtr, err |-> "max out of range"]
        ELSE IF full.err # Nil THEN full
        ELSE IF requestedMinValue # Zero \/ requestedMaxValue # Zero THEN req
        ELSE full

\* One ValidationWarning of validateIntTypeAndSetLimit.  Both warnings name the
\* parameter "min" and carry the requested min value, as the code does.
LimitWarning(which, th, requestedMinValue) ==
    [Msg |-> which,
     Severity |-> "error",
     AllowedMinValue |-> th.min,
     AllowedMaxValue |-> th.max,
     ParameterName |-> "min",
     ParameterValue |-> requestedMinValue]

validateIntTypeAndSetLimit(size, requestedMinValue, requestedMaxValue) ==
    LET th == getIntThresholds(size)
        w1 == IF ~limitIsValid(requestedMinValue, th.min, th.max)
              THEN <<LimitWarning("requested min value is out of range", th,
                                  requestedMinValue)>>
              ELSE <<>>
        w2 == IF ~limitIsValid(requestedMaxValue, th.min, th.max)
              THEN <<LimitWarning("requested max value is out of range", th,
                                  requestedMinValue)>>
              ELSE <<>>
        warns == w1 \o w2
        full == NewInt64Limiter(MinInt64, MaxInt64)
        req == NewInt64Limiter(requestedMinValue, requestedMaxValue)
    IN  IF th.err # Nil THEN [limiter |-> NilPtr, warns |-> <<>>, err |-> th.err]
        ELSE IF IsFatal(warns) THEN [limiter |-> NilPtr, warns |-> warns, err |-> Nil]
        ELSE IF full.err # Nil THEN [limiter |-> NilPtr, warns |-> <<>>, err |-> full.err]
        ELSE IF requestedMinValue # Zero \/ requestedMaxValue # Zero
        THEN [limiter |-> req.limiter, warns |-> <<>>, err |-> req.err]
        ELSE [limiter |-> full.limiter, warns |-> <<>>, err |-> Nil]

\* Inputs of the limit helpers: widths (0 and 3 are unsupported) and thresholds
\* around the int16, int32 and int64 limits.
LimitSizes == {0, Int2Length, 3, Int4Length, Int8Length}

LimitValues ==
    {MinInt64, <<-1, Word - 1, 32767, Word - 1>>, MinInt32, I64(-100000),
     I64(-32769), MinInt16, I64(-1), Zero, I64(10), I64(20), MaxInt16,
     I64(32768), I64(100000), MaxInt32, <<0, 0, 32768, 0>>, MaxInt64}

\* The helpers are pure functions: a behaviour applies one of them once.
NoCall == [fn |-> Nil, size |-> 0, min |-> Zero, max |-> Zero,
           limiter |-> NilPtr, warns |-> <<>>, err |-> Nil, thMin |-> Zero, thMax |-> Zero]

CallGetIntThresholds ==
    /\ call.fn = Nil
    /\ \E size \in LimitSizes :
         LET th == getIntThresholds(size)
         IN  call' = [NoCall EXCEPT !.fn = "getIntThresholds", !.size = size,
                                    !.thMin = th.min, !.thMax = th.max,
                                    !.err = th.err]
    /\ UNCHANGED <<hr, out, rit, newOut, rec, written, last, rows>>

CallValidateIntTypeAndSetLimit ==
    /\ call.fn = Nil
    /\ \E size \in LimitSizes, mn \in LimitValues, mx \in LimitValues :
         LET r == validateIntTypeAndSetLimit(size, mn, mx)
         IN  call' = [NoCall EXCEPT !.fn = "validateIntTypeAndSetLimit",
                                    !.size = size, !.min = mn, !.max = mx,
                                    !.limiter = r.limiter, !.warns = r.warns,
                                    !.err = r.err]
    /\ UNCHANGED <<hr, out, rit, newOut, rec, written, last, rows>>

CallGetLimiterForDynamicParameter ==
    /\ call.fn = Nil
    /\ \E size \in LimitSizes, mn \in LimitValues, mx \in LimitValues :
         LET r == getLimiterForDynamicParameter(size, mn, mx)
         IN  call' = [NoCall EXCEPT !.fn = "getLimiterForDynamicParameter",
                                    !.size = size, !.min = mn, !.max = mx,
                                    !.limiter = r.limiter, !.err = r.err]
    /\ UNCHANGED <<hr, out, rit, newOut, rec, written, last, rows>>

----------------------------------------------------------------------------
\* Generators (generators package)

MaxSize == 3        \* largest reduction length given to NewHashReducer
MaxGenLen == 3      \* largest output length of an inner generator
MaxSlack == 1       \* largest spare capacity behind an inner generator's output
MaxDataLen == 2     \* longest input handed to Generate

RECURSIVE SumBytes(_)
SumBytes(s) == IF s = <<>> THEN 0 ELSE Head(s) + SumBytes(Tail(s))

\* The digest a deterministic generator writes into its n-byte buffer: a pure
\* function of the input bytes.
Digest(data, n) ==
    [i \in 1..n |-> (SumBytes(data) * 7 + Len(data) * 3 + i * 11) % 256]

DataBytes == {1, 2}
RandBytes == {0, 255}

Inputs == UNION {[1..n -> DataBytes] : n \in 0..MaxDataLen}

\* A Generator is deterministic (output a pure function of the input), random
\* (output independent of the input) or failing.  Its result is a Go slice:
\* a backing array of cap bytes of which the first len are the output.
Generators ==
    [kind : {"deterministic", "random", "failing"},
     len : 0..MaxGenLen,
     slack : 0..MaxSlack]

GeneratorGenerate(g, data) ==
    CASE g.kind = "failing" ->
           {[array |-> <<>>, len |-> 0, err |-> "generator failed"]}
      [] g.kind = "deterministic" ->
           {[array |-> Digest(data, g.len + g.slack), len |-> g.len, err |-> Nil]}
      [] OTHER ->
           {[array |-> a, len |-> g.len, err |-> Nil] :
              a \in [1..(g.len + g.slack) -> RandBytes]}

GeneratorSize(g) == g.len

\* Go's res[:n]: panics unless 0 <= n <= cap(res); else the first n bytes of
\* the backing array.
SliceTo(res, n) ==
    IF n < 0 \/ n > Len(res.array)
    THEN [bytes |-> <<>>, panic |-> TRUE]
    ELSE [bytes |-> SubSeq(res.array, 1, n), panic |-> FALSE]

NewHashReducer(g, size) == [g |-> g, size |-> size]

\* Variant of HashReducer.Generate that returns the inner output as it is.
HashReducerGenerate_untruncated(h, data) ==
    {IF res.err # Nil
     THEN [res |-> <<>>, err |-> res.err, panic |-> FALSE]
     ELSE [res |-> SubSeq(res.array, 1, res.len), err |-> Nil, panic |-> FALSE] :
       res \in GeneratorGenerate(h.g, <<>>)}

\* HashReducer.Generate: the outcomes of one call.  The inner generator is
\* handed res, the still nil named result, not data.
HashReducerGenerate(h, data) ==
    {IF res.err # Nil
     THEN [res |-> <<>>, err |-> res.err, panic |-> FALSE]
     ELSE [res |-> SliceTo(res, h.size).bytes, err |-> Nil,
           panic |-> SliceTo(res, h.size).panic] :
       res \in GeneratorGenerate(h.g, <<>>)}

HashReducerSize(h) == h.size

NewReducer ==
    /\ hr = NilPtr
    /\ \E g \in Generators, size \in (-1)..MaxSize :
         hr' = Ptr(NewHashReducer(g, size))
    /\ UNCHANGED <<call, out, rit, newOut, rec, written, last, rows>>

Generate ==
    /\ hr # NilPtr
    /\ \E data \in Inputs :
         \E o \in HashReducerGenerate(hr[1], data) :
           out' = Ptr([op |-> "Generate", data |-> data, res |-> o.res,
                       err |-> o.err, panic |-> o.panic, size |-> 0])
    /\ UNCHANGED <<call, hr, rit, newOut, rec, written, last, rows>>

Size ==
    /\ hr # NilPtr
    /\ out' = Ptr([op |-> "Size", data |-> <<>>, res |-> <<>>, err |-> Nil,
                   panic |-> FALSE, size |-> HashReducerSize(hr[1])])
    /\ UNCHANGED <<call, hr, rit, newOut, rec, written, last, rows>>

----------------------------------------------------------------------------
\* Records, columns and parameters (toolkit package)

\* toolkit.NewRawValue; a null value carries no data.
NewRawValue(data, isNull) == [Data |-> data, IsNull |-> isNull]

NullValue == NewRawValue(Zero, TRUE)

\* The table of the driver: column names by index (Column.Idx, Column.Name).
ColumnNames == [i \in 0..2 |-> <<"lo", "value", "hi">>[i + 1]]

ColumnIdxs == DOMAIN ColumnNames

\* Driver.GetColumnByName
GetColumnByName(name) ==
    IF \E i \in ColumnIdxs : ColumnNames[i] = name
    THEN [idx |-> CHOOSE i \in ColumnIdxs : ColumnNames[i] = name, ok |-> TRUE]
    ELSE [idx |-> 0, ok |-> FALSE]

\* Record.GetRawColumnValueByIdx; fail says which call of the handler fails.
GetRawColumnValueByIdx(r, idx, fail) ==
    IF fail = "read"
    THEN [val |-> NullValue, err |-> "read failed"]
    ELSE [val |-> r[idx], err |-> Nil]

\* Record.SetRawColumnValueByIdx: writes the one column, or fails and writes
\* nothing.
SetRawColumnValueByIdx(r, idx, v, fail) ==
    IF fail = "set"
    THEN [rec |-> r, err |-> "write failed"]
    ELSE [rec |-> [r EXCEPT ![idx] = v], err |-> Nil]

\* Parameterizer: a static parameter holds its value, a dynamic one names the
\* column of the current record it is read from.
StaticParam(v) == [dynamic |-> FALSE, col |-> 0, value |-> v]
DynamicParam(c) == [dynamic |-> TRUE, col |-> c, value |-> Zero]

IsDynamic(p) == p.dynamic

\* Parameterizer.Scan of an int64 parameter.  A dynamic parameter decodes the
\* column of the record; a null column cannot be decoded.
Scan(p, r, failed) ==
    IF failed THEN [v |-> Zero, err |-> "scan failed"]
    ELSE IF ~p.dynamic THEN [v |-> p.value, err |-> Nil]
    ELSE IF r[p.col].IsNull THEN [v |-> Zero, err |-> "scan failed"]
    ELSE [v |-> r[p.col].Data, err |-> Nil]

\* transformers.NewInt64Transformer
NewInt64Transformer(limiter) == [limiter |-> limiter]

\* Values a generator can be mapped to.
GenValues == {I64(-100000), I64(10), I64(100000)}

\* transformers.Int64Transformer.Transform: the limiter of the context if there
\* is one, else its own; the result is a value within the limiter's range.
Int64TransformerTransform(t, ctxLimiter, data, fail) ==
    LET limiter == IF ctxLimiter # NilPtr THEN ctxLimiter[1] ELSE t.limiter[1]
    IN  IF fail = "gen"
        THEN {[res |-> Zero, err |-> "generation failed", limiter |-> Ptr(limiter)]}
        ELSE {[res |-> v, err |-> Nil, limiter |-> Ptr(limiter)] :
                v \in {x \in GenValues :
                         Leq(limiter.MinValue, x) /\ Leq(x, limiter.MaxValue)}}

----------------------------------------------------------------------------
\* IntegerTransformer (integer.go)

\* NewIntegerTransformer.  parameters holds the four Parameterizers, length is
\* Column.Length of the named column, fail names the Scan that fails, if any.
NewIntegerTransformer(parameters, length, fail) ==
    LET dynamicMode == IsDynamic(parameters.min) \/ IsDynamic(parameters.max)
        col == GetColumnByName(parameters.column)
        intSize == IF length # -1 THEN length ELSE 8
        mn == Scan(parameters.min, <<>>, fail = "min")
        mx == Scan(parameters.max, <<>>, fail = "max")
        minVal == IF dynamicMode THEN Zero ELSE mn.v
        maxVal == IF dynamicMode THEN Zero ELSE mx.v
        lim == validateIntTypeAndSetLimit(intSize, minVal, maxVal)
        none == [t |-> NilPtr, warns |-> <<>>, err |-> Nil]
    IN  IF fail = "column"
        THEN [none EXCEPT !.err = "unable to scan column param"]
        ELSE IF ~col.ok
        THEN [none EXCEPT !.err = "column is not found"]
        ELSE IF fail = "keep_null"
        THEN [none EXCEPT !.err = "unable to scan keep_null param"]
        ELSE IF ~dynamicMode /\ mn.err # Nil
        THEN [none EXCEPT !.err = "error scanning min parameter"]
        ELSE IF ~dynamicMode /\ mx.err # Nil
        THEN [none EXCEPT !.err = "error scanning max parameter"]
        ELSE IF lim.err # Nil
        THEN [none EXCEPT !.err = lim.err]
        ELSE IF IsFatal(lim.warns)
        THEN [none EXCEPT !.warns = lim.warns]
        ELSE [none EXCEPT !.t =
                Ptr([columnName |-> parameters.column,
                     keepNull |-> parameters.keep_null,
                     affectedColumns |-> [i \in {col.idx} |-> parameters.column],
                     columnIdx |-> col.idx,
                     minParam |-> parameters.min,
                     maxParam |-> parameters.max,
                     t |-> NewInt64Transformer(lim.limiter),
                     dynamicMode |-> dynamicMode,
                     intSize |-> intSize])]

GetAffectedColumns(t) == t.affectedColumns

\* What a Transform call did: the record as the call left it, whether the
\* record was returned, the error, and which steps ran.
NoOutcome(r) ==
    [rec |-> r, ret |-> FALSE, err |-> Nil, scanned |-> FALSE,
     minVal |-> Zero, maxVal |-> Zero, limiter |-> NilPtr,
     generated |-> FALSE, setCalled |-> FALSE]

\* Variant of writeBack that writes the result before looking at the
\* generation error.
writeBack_beforeErrCheck(t, r, b, g, fail) ==
    LET w == SetRawColumnValueByIdx(r, t.columnIdx, NewRawValue(g.res, FALSE), fail)
        ran == [b EXCEPT !.generated = TRUE, !.limiter = g.limiter]
    IN  IF w.err # Nil
        THEN [ran EXCEPT !.setCalled = TRUE, !.rec = w.rec,
                         !.err = "unable to set new value"]
        ELSE IF g.err # Nil
        THEN [ran EXCEPT !.setCalled = TRUE, !.rec = w.rec,
                         !.err = "error generating int value"]
        ELSE [ran EXCEPT !.setCalled = TRUE, !.rec = w.rec, !.ret = TRUE]

\* Variant of writeBack that writes at the first column, not at columnIdx.
writeBack_firstColumn(t, r, b, g, fail) ==
    LET w == SetRawColumnValueByIdx(r, 0, NewRawValue(g.res, FALSE), fail)
        ran == [b EXCEPT !.generated = TRUE, !.limiter = g.limiter]
    IN  IF g.err # Nil
        THEN [ran EXCEPT !.err = "error generating int value"]
        ELSE IF w.err # Nil
        THEN [ran EXCEPT !.setCalled = TRUE, !.rec = w.rec,
                         !.err = "unable to set new value"]
        ELSE [ran EXCEPT !.setCalled = TRUE, !.rec = w.rec, !.ret = TRUE]

\* The tail shared by both transforms: the generation result g is checked and
\* written back at columnIdx, not null.
writeBack(t, r, b, g, fail) ==
    LET w == SetRawColumnValueByIdx(r, t.columnIdx, NewRawValue(g.res, FALSE), fail)
        ran == [b EXCEPT !.generated = TRUE, !.limiter = g.limiter]
    IN  IF g.err # Nil
        THEN [ran EXCEPT !.err = "error generating int value"]
        ELSE IF w.err # Nil
        THEN [ran EXCEPT !.setCalled = TRUE, !.rec = w.rec,
                         !.err = "unable to set new value"]
        ELSE [ran EXCEPT !.setCalled = TRUE, !.rec = w.rec, !.ret = TRUE]

\* Variant of dynamicTransform that does not put the row's limiter into the
\* context, so that the typed transformer falls back on its own.
dynamicTransform_ownLimiter(t, r, fail) ==
    LET rd == GetRawColumnValueByIdx(r, t.columnIdx, fail)
        b == NoOutcome(r)
        mn == Scan(t.minParam, r, fail = "min")
        mx == Scan(t.maxParam, r, fail = "max")
        sc == [b EXCEPT !.scanned = TRUE, !.minVal = mn.v, !.maxVal = mx.v]
        lim == getLimiterForDynamicParameter(t.intSize, mn.v, mx.v)
    IN  IF rd.err # Nil
        THEN {[b EXCEPT !.err = "unable to scan value"]}
        ELSE IF rd.val.IsNull /\ t.keepNull
        THEN {[b EXCEPT !.ret = TRUE]}
        ELSE IF mn.err # Nil
        THEN {[b EXCEPT !.scanned = TRUE, !.err = "unable to scan min param"]}
        ELSE IF mx.err # Nil
        THEN {[b EXCEPT !.scanned = TRUE, !.minVal = mn.v,
                        !.err = "unable to scan max param"]}
        ELSE IF lim.err # Nil
        THEN {[sc EXCEPT !.err = "error creating limiter in dynamic mode"]}
        ELSE {writeBack(t, r, sc, g, fail) :
                g \in Int64TransformerTransform(t.t, NilPtr, rd.val.Data, fail)}

dynamicTransform(t, r, fail) ==
    LET rd == GetRawColumnValueByIdx(r, t.columnIdx, fail)
        b == NoOutcome(r)
        mn == Scan(t.minParam, r, fail = "min")
        mx == Scan(t.maxParam, r, fail = "max")
        sc == [b EXCEPT !.scanned = TRUE, !.minVal = mn.v, !.maxVal = mx.v]
        lim == getLimiterForDynamicParameter(t.intSize, mn.v, mx.v)
    IN  IF rd.err # Nil
        THEN {[b EXCEPT !.err = "unable to scan value"]}
        ELSE IF rd.val.IsNull /\ t.keepNull
        THEN {[b EXCEPT !.ret = TRUE]}
        ELSE IF mn.err # Nil
        THEN {[b EXCEPT !.scanned = TRUE, !.err = "unable to scan min param"]}
        ELSE IF mx.err # Nil
        THEN {[b EXCEPT !.scanned = TRUE, !.minVal = mn.v,
                        !.err = "unable to scan max param"]}
        ELSE IF lim.err # Nil
        THEN {[sc EXCEPT !.err = "error creating limiter in dynamic mode"]}
        ELSE {writeBack(t, r, sc, g, fail) :
                g \in Int64TransformerTransform(t.t, lim.limiter, rd.val.Data, fail)}

\* Variant of staticTransform without the keep_null shortcut.
staticTransform_noNullCheck(t, r, fail) ==
    LET rd == GetRawColumnValueByIdx(r, t.columnIdx, fail)
        b == NoOutcome(r)
    IN  IF rd.err # Nil
        THEN {[b EXCEPT !.err = "unable to scan value"]}
        ELSE {writeBack(t, r, b, g, fail) :
                g \in Int64TransformerTransform(t.t, NilPtr, rd.val.Data, fail)}

staticTransform(t, r, fail) ==
    LET rd == GetRawColumnValueByIdx(r, t.columnIdx, fail)
        b == NoOutcome(r)
    IN  IF rd.err # Nil
        THEN {[b EXCEPT !.err = "unable to scan value"]}
        ELSE IF rd.val.IsNull /\ t.keepNull
        THEN {[b EXCEPT !.ret = TRUE]}
        ELSE {writeBack(t, r, b, g, fail) :
                g \in Int64TransformerTransform(t.t, NilPtr, rd.val.Data, fail)}

IntegerTransformerTransform(t, r, fail) ==
    IF t.dynamicMode THEN dynamicTransform(t, r, fail) ELSE staticTransform(t, r, fail)

\* Inputs.  Thresholds given as literals, values held by the columns of a
\* record, and the lengths of an integer column (-1: unknown).
MinValues == {Zero, I64(100000)}
MaxValues == {Zero, I64(10), I64(100000)}
Lengths == {-1, Int2Length, Int4Length, Int8Length}

MaxRows == 2        \* records one transformer is handed

\* The cells a record can hold: "lo" and "hi" hold thresholds, "value" is
\* null or holds an integer.
Cells(i) ==
    CASE ColumnNames[i] = "lo" -> {NewRawValue(v, FALSE) : v \in {Zero, I64(10)}}
      [] ColumnNames[i] = "hi" -> {NewRawValue(v, FALSE) : v \in {Zero, I64(100000)}}
      [] OTHER -> {NullValue, NewRawValue(I64(10), FALSE)}

Records ==
    {[i \in ColumnIdxs |-> IF i = 0 THEN a ELSE IF i = 1 THEN b ELSE c] :
       a \in Cells(0), b \in Cells(1), c \in Cells(2)}

MinParams == {DynamicParam(0)} \cup {StaticParam(v) : v \in MinValues}
MaxParams == {DynamicParam(2)} \cup {StaticParam(v) : v \in MaxValues}

Construct ==
    /\ newOut = NilPtr
    /\ \E name \in {"value", "nope"}, length \in Lengths, keepNull \in BOOLEAN,
          minParam \in MinParams, maxParam \in MaxParams,
          fail \in {"none", "column", "keep_null", "min", "max"} :
         LET parameters == [column |-> name, min |-> minParam, max |-> maxParam,
                            keep_null |-> keepNull]
             res == NewIntegerTransformer(parameters, length, fail)
         IN  /\ rit' = res.t
             /\ newOut' = Ptr([parameters |-> parameters, length |-> length,
                               fail |-> fail, warns |-> res.warns, err |-> res.err])
    /\ UNCHANGED <<call, hr, out, rec, written, last, rows>>

Transform ==
    /\ rit # NilPtr
    /\ rows < MaxRows
    /\ rows' = rows + 1
    /\ \E r \in Records, fail \in {"none", "read", "min", "max", "gen", "set"} :
         \E o \in IntegerTransformerTransform(rit[1], r, fail) :
           /\ rec' = Ptr(o.rec)
           /\ last' = Ptr([before |-> r, ret |-> o.ret, err |-> o.err,
                           scanned |-> o.scanned, minVal |-> o.minVal,
                           maxVal |-> o.maxVal, limiter |-> o.limiter,
                           generated |-> o.generated, setCalled |-> o.setCalled])
           /\ written' = IF rec = NilPtr THEN NilPtr
                         ELSE Ptr(rec[1][rit[1].columnIdx])
    /\ UNCHANGED <<call, hr, out, rit, newOut>>

----------------------------------------------------------------------------

Init ==
    /\ call = NoCall
    /\ hr = NilPtr
    /\ out = NilPtr
    /\ rit = NilPtr
    /\ newOut = NilPtr
    /\ rec = NilPtr
    /\ written = NilPtr
    /\ last = NilPtr
    /\ rows = 0

NextLimits ==
    \/ CallGetIntThresholds
    \/ CallValidateIntTypeAndSetLimit
    \/ CallGetLimiterForDynamicParameter

SpecLimits == Init /\ [][NextLimits]_vars

NextReducer ==
    \/ NewReducer
    \/ Generate
    \/ Size

SpecReducer == Init /\ [][NextReducer]_vars

Next ==
    \/ Construct
    \/ Transform

Spec == Init /\ [][Next]_vars

----------------------------------------------------------------------------
\* Properties

\* The signed range of an integer of w bytes.
SignedMin(w) == CASE w = 2 -> MinInt16 [] w = 4 -> MinInt32 [] OTHER -> MinInt64
SignedMax(w) == CASE w = 2 -> MaxInt16 [] w = 4 -> MaxInt32 [] OTHER -> MaxInt64

OutOfRange(v, w) == Lt(v, SignedMin(w)) \/ Lt(SignedMax(w), v)

Width(length) == IF length = -1 THEN 8 ELSE length

\* C1: in static mode, a requested min or max outside the signed range of the
\* column's width makes NewIntegerTransformer return no transformer and a fatal
\* warning that carries the width's signed minimum and maximum.  (Stated for
\* requests with min <= max, which no limiter rejects for their order.)
C1_StaticOutOfRangeIsFatal ==
    (/\ newOut # NilPtr
     /\ newOut[1].fail = "none"
     /\ GetColumnByName(newOut[1].parameters.column).ok
     /\ ~newOut[1].parameters.min.dynamic
     /\ ~newOut[1].parameters.max.dynamic
     /\ Leq(newOut[1].parameters.min.value, newOut[1].parameters.max.value)
     /\ \/ OutOfRange(newOut[1].parameters.min.value, Width(newOut[1].length))
        \/ OutOfRange(newOut[1].parameters.max.value, Width(newOut[1].length)))
    => /\ rit = NilPtr
       /\ IsFatal(newOut[1].warns)
       /\ \E i \in 1..Len(newOut[1].warns) :
            /\ newOut[1].warns[i].Severity = "error"
            /\ newOut[1].warns[i].AllowedMinValue = SignedMin(Width(newOut[1].length))
            /\ newOut[1].warns[i].AllowedMaxValue = SignedMax(Width(newOut[1].length))

\* C2: for the sentinel request min = 0, max = 0 both limit helpers build a
\* limiter whose bounds are the signed range of the width.
C2_SentinelGivesWidthRange ==
    (/\ call.fn \in {"validateIntTypeAndSetLimit", "getLimiterForDynamicParameter"}
     /\ call.size \in {2, 4, 8}
     /\ call.min = Zero
     /\ call.max = Zero)
    => /\ call.err = Nil
       /\ call.limiter = Ptr([MinValue |-> SignedMin(call.size),
                              MaxValue |-> SignedMax(call.size)])

\* C3: getIntThresholds gives the signed minimum and maximum of the widths 2, 4
\* and 8, and an error for every other width.
C3_ThresholdsAreSignedRange ==
    call.fn = "getIntThresholds"
    => IF call.size \in {2, 4, 8}
       THEN /\ call.err = Nil
            /\ call.thMin = SignedMin(call.size)
            /\ call.thMax = SignedMax(call.size)
       ELSE call.err # Nil

\* C4: with a deterministic inner generator, Generate(input) returns the first
\* size bytes of the inner generator's output for that input.
C4_ReducedOutputOfSameInput ==
    (/\ out # NilPtr
     /\ out[1].op = "Generate"
     /\ hr[1].g.kind = "deterministic"
     /\ hr[1].size <= GeneratorSize(hr[1].g)
     /\ out[1].err = Nil
     /\ ~out[1].panic)
    => \A inner \in GeneratorGenerate(hr[1].g, out[1].data) :
         out[1].res = SubSeq(inner.array, 1, hr[1].size)

\* C5: Size() is the configured reduction length; a Generate call that returns
\* without error returns exactly Size() bytes; when the inner generator fails,
\* Generate returns the error and no output.
C5_OutputHasReducedSize ==
    out # NilPtr
    => /\ out[1].op = "Size" => out[1].size = hr[1].size
       /\ (out[1].op = "Generate" /\ out[1].err = Nil /\ ~out[1].panic)
          => Len(out[1].res) = HashReducerSize(hr[1])
       /\ (out[1].op = "Generate" /\ hr[1].g.kind = "failing")
          => out[1].err = "generator failed" /\ out[1].res = <<>> /\ ~out[1].panic

C5_Witness ==
    /\ out # NilPtr
    /\ out[1].op = "Generate"
    /\ out[1].err = Nil
    /\ ~out[1].panic
    /\ hr[1].size > 0
    /\ hr[1].size < hr[1].g.len
    /\ Len(out[1].res) = hr[1].size

\* C6: with keep_null set and a null value read at the bound column, Transform
\* returns the record with every column as it was, and runs neither the scans
\* of min and max, nor the generation, nor the write.
C6_KeepNullLeavesRecord ==
    (/\ last # NilPtr
     /\ rit[1].keepNull
     /\ last[1].before[rit[1].columnIdx].IsNull
     /\ last[1].err # "unable to scan value")
    => /\ last[1].ret
       /\ last[1].err = Nil
       /\ rec[1] = last[1].before
       /\ ~last[1].scanned
       /\ ~last[1].generated
       /\ ~last[1].setCalled

C6_Witness ==
    /\ last # NilPtr
    /\ rit[1].keepNull
    /\ rit[1].dynamicMode
    /\ last[1].before[rit[1].columnIdx].IsNull
    /\ last[1].ret
    /\ rec[1][rit[1].columnIdx].IsNull

\* C7: when Transform returns an error, the bound column of the record holds
\* the value and the null flag it held before the call, and no record is
\* returned.
C7_ErrorLeavesColumn ==
    (last # NilPtr /\ last[1].err # Nil)
    => /\ rec[1][rit[1].columnIdx] = last[1].before[rit[1].columnIdx]
       /\ ~last[1].ret

C7_Witness ==
    /\ last # NilPtr
    /\ last[1].generated
    /\ last[1].err = "error generating int value"
    /\ ~last[1].before[rit[1].columnIdx].IsNull

\* C8: in dynamic mode, a row that is not passed through and whose scanned min
\* or max is outside the signed range of the transformer's width gets an
\* error: nothing is generated and nothing is written.
C8_DynamicOutOfRangeIsError ==
    (/\ last # NilPtr
     /\ rit[1].dynamicMode
     /\ last[1].scanned
     /\ last[1].err \notin {"unable to scan min param", "unable to scan max param"}
     /\ \/ OutOfRange(last[1].minVal, rit[1].intSize)
        \/ OutOfRange(last[1].maxVal, rit[1].intSize))
    => /\ last[1].err # Nil
       /\ ~last[1].generated
       /\ ~last[1].setCalled
       /\ rec[1] = last[1].before

\* C9: GetAffectedColumns is the one column index the column parameter was
\* resolved to, whatever was transformed since, and Transform leaves every
\* other column of the record as it was.
C9_OnlyAffectedColumnChanges ==
    rit # NilPtr
    => /\ DOMAIN GetAffectedColumns(rit[1]) = {rit[1].columnIdx}
       /\ ColumnNames[rit[1].columnIdx] = newOut[1].parameters.column
       /\ GetAffectedColumns(rit[1])[rit[1].columnIdx] = newOut[1].parameters.column
       /\ last # NilPtr
          => \A c \in ColumnIdxs \ DOMAIN GetAffectedColumns(rit[1]) :
               rec[1][c] = last[1].before[c]

C9_Witness ==
    /\ last # NilPtr
    /\ rows = MaxRows
    /\ last[1].setCalled
    /\ last[1].ret
    /\ rec[1] # last[1].before

\* The threshold a parameter yields for record r.
ScannedFrom(p, r) == IF p.dynamic THEN r[p.col].Data ELSE p.value

\* The limiter a row's thresholds ask for: their range, or the default limiter
\* when both are zero.
RowLimiter(mn, mx) ==
    IF mn = Zero /\ mx = Zero
    THEN [MinValue |-> MinInt64, MaxValue |-> MaxInt64]
    ELSE [MinValue |-> mn, MaxValue |-> mx]

\* C10: in dynamic mode the limiter a row is generated with is built from the
\* thresholds scanned from that row, the value written lies within it, and the
\* call leaves the value written for the previous row as it was.
C10_LimiterIsOfThisRow ==
    [][(rit # NilPtr /\ rit[1].dynamicMode /\ rows' = rows + 1 /\ last'[1].generated)
       => /\ last'[1].minVal = ScannedFrom(rit[1].minParam, last'[1].before)
          /\ last'[1].maxVal = ScannedFrom(rit[1].maxParam, last'[1].before)
          /\ last'[1].limiter = Ptr(RowLimiter(last'[1].minVal, last'[1].maxVal))
          /\ last'[1].ret
             => /\ Leq(last'[1].limiter[1].MinValue, rec'[1][rit[1].columnIdx].Data)
                /\ Leq(rec'[1][rit[1].columnIdx].Data, last'[1].limiter[1].MaxValue)
          /\ rec # NilPtr => written' = Ptr(rec[1][rit[1].columnIdx])]_vars

C10_Witness ==
    /\ rit # NilPtr
    /\ rit[1].dynamicMode
    /\ rows = 2
    /\ last[1].ret
    /\ last[1].generated
    /\ written # NilPtr
    /\ ~written[1].IsNull
    /\ Lt(written[1].Data, last[1].limiter[1].MinValue)
    /\ rec[1][rit[1].columnIdx].Data # written[1].Data

====
